---- MODULE Spec2Model ----
(***************************************************************************)
(* Model of kg_agent/core.py: KnowledgeMemory, KGExecutor, KGToolbox and   *)
(* KGAgent.  Four specifications share the module, one per component:      *)
(*   SpecGraph   - KGExecutor over a networkx DiGraph                      *)
(*   SpecMemory  - KnowledgeMemory                                         *)
(*   SpecToolbox - KGToolbox                                               *)
(*   SpecAgent   - KGAgent.run over a toolbox and a memory                 *)
(***************************************************************************)
EXTENDS Integers, Sequences, FiniteSets, TLC

\* ------------------------------------------------------------------ bounds
\* longest list of triples passed to one load_triples call
MaxTriples == 2
\* number of graph mutations (load_triples calls and caller add_edge calls)
MaxGraphOps == 2
\* largest depth passed to query_neighbors
MaxDepth == 3
\* number of KnowledgeMemory.write calls
MaxWrites == 3
\* number of KGToolbox.register calls
MaxRegs == 3
\* largest max_iterations passed to KGAgent.run
MaxIter == 3
\* number of run calls on one agent
MaxRuns == 2

\* ------------------------------------------------------------------ values
\* Python's None
None == "None"

Range(f) == {f[x] : x \in DOMAIN f}

\* ------------------------------------------------------------------ state
VARIABLES
  graphs,         \* the two DiGraph objects: "caller" and "fresh"
  graphArg,       \* the graph argument of KGExecutor(): None or "caller"
  executorGraph,  \* the object self.graph refers to
  graphOps,       \* number of mutations so far
  lastLoad,       \* when the last call was load_triples: its list and the graph before it
  qres            \* outcome of the last query_neighbors call

graphVars == <<graphs, graphArg, executorGraph, graphOps, lastLoad, qres>>

VARIABLES
  store,     \* KnowledgeMemory.store
  writeLog,  \* the write calls made so far, <<key, value>> each
  rres       \* outcome of the last read call

memoryVars == <<store, writeLog, rres>>

VARIABLES
  tools,    \* KGToolbox.tools
  regLog,   \* the register calls made so far, <<name, fn>> each
  callArgs, \* the arguments of the last call
  cres      \* outcome of the last call

toolboxVars == <<tools, regLog, callArgs, cres>>

VARIABLES
  llmHasGenerate, \* hasattr(self.llm, "generate")
  selector,       \* "shipped": KGAgent.select_tool; "stub": an override
  memArg,         \* the memory argument of the constructor
  pc,             \* position of run: idle, loop, execute, update, done, failed
  question,       \* run's argument
  maxIter,        \* run's max_iterations
  plan,           \* local plan
  result,         \* local result
  i,              \* loop index
  toolName,       \* local tool_name
  toolOut,        \* local tool_out
  returned,       \* what the last completed run returned
  error,          \* the exception the last run ended with, or None
  runs,           \* number of run calls so far
  startStore,     \* memory content when the current run was called
  selLog,         \* what select_tool returned in this run, in order
  attempts,       \* the toolbox calls of this run, <<name, args>> each
  outs,           \* the outputs of the tool invocations of this run
  runWrites       \* the memory writes of this run, <<key, value>> each

agentVars ==
  <<llmHasGenerate, selector, memArg, pc, question, maxIter, plan, result, i,
    toolName, toolOut, returned, error, runs, startStore, selLog, attempts,
    outs, runWrites>>

runLog == <<selLog, attempts, outs, runWrites>>

vars == <<graphVars, memoryVars, toolboxVars, agentVars>>

\* what the actions of one component leave alone
notGraph == <<memoryVars, toolboxVars, agentVars>>
notMemory == <<graphVars, toolboxVars, agentVars>>
notToolbox == <<graphVars, memoryVars, agentVars>>
notAgent == <<graphVars, writeLog, rres, tools, regLog, callArgs, cres>>

\* ================================================================== graph
Nodes == {"A", "B", "C"}
Preds == {"r1", "r2"}

\* the triples a caller loads: a chain A->B->C, the edge C->B closing a cycle,
\* and a second predicate for A->B
Triples ==
  { <<"A", "r1", "B">>, <<"A", "r2", "B">>, <<"B", "r2", "C">>,
    <<"C", "r1", "B">> }

\* nx.DiGraph(): node set and, per edge (s, o), the predicate attribute
EmptyGraph == [nodes |-> {}, pred |-> <<>>]

Edges(g) == DOMAIN g.pred

\* add_edge that keeps the attribute of an edge that exists
add_edge_keep(g, s, o, p) ==
  [nodes |-> g.nodes \cup {s, o},
   pred  |-> [e \in DOMAIN g.pred \cup {<<s, o>>} |->
                IF e \in DOMAIN g.pred THEN g.pred[e] ELSE p]]

\* DiGraph.add_edge(s, o, predicate=p): creates both endpoints, one edge per
\* (s, o), the attribute is overwritten
add_edge(g, s, o, p) ==
  [nodes |-> g.nodes \cup {s, o},
   pred  |-> [e \in Edges(g) \cup {<<s, o>>} |->
                IF e = <<s, o>> THEN p ELSE g.pred[e]]]

\* DiGraph.__len__ is the number of nodes; bool(graph) is len(graph) > 0
GraphTruthy(g) == Cardinality(g.nodes) > 0

\* DiGraph.successors(n) of a node of the graph
Successors(g, n) == {o \in Nodes : <<n, o>> \in Edges(g)}

\* DiGraph.successors(n) raises NetworkXError for a node not in the graph
SuccessorsRaises(g, n) == n \notin g.nodes

\* KGExecutor.load_triples: the for loop over the list
RECURSIVE load_triples(_, _)
load_triples(g, triples) ==
  IF triples = <<>> THEN g
  ELSE load_triples(add_edge(g, Head(triples)[1], Head(triples)[3], Head(triples)[2]),
                    Tail(triples))

\* query_neighbors that returns the last frontier only (exactly depth hops)
RECURSIVE Expand_exact(_, _, _, _)
Expand_exact(g, frontier, neighbors, d) ==
  IF d = 0 THEN [err |-> FALSE, set |-> neighbors]
  ELSE IF \E n \in frontier : SuccessorsRaises(g, n)
       THEN [err |-> TRUE, set |-> {}]
       ELSE LET next_frontier == UNION {Successors(g, n) : n \in frontier}
            IN  Expand_exact(g, next_frontier, next_frontier, d - 1)

\* KGExecutor.query_neighbors: the for _ in range(depth) loop; the outcome is
\* the set `neighbors`, or the error raised by successors()
RECURSIVE Expand(_, _, _, _)
Expand(g, frontier, neighbors, d) ==
  IF d = 0 THEN [err |-> FALSE, set |-> neighbors]
  ELSE IF \E n \in frontier : SuccessorsRaises(g, n)
       THEN [err |-> TRUE, set |-> {}]
       ELSE LET next_frontier == UNION {Successors(g, n) : n \in frontier}
            IN  Expand(g, next_frontier, neighbors \cup next_frontier, d - 1)

query_neighbors(g, node, depth) == Expand(g, {node}, {}, depth)

\* list(neighbors): the elements of the set, each once, in some order
ListOf(S) == {f \in [1..Cardinality(S) -> S] : Range(f) = S}

\* KGExecutor.__init__: self.graph = graph or nx.DiGraph().  The argument is
\* None or the caller's graph object; the result names the object kept.
KGExecutor_init(graph, callerG) ==
  IF graph # None /\ GraphTruthy(callerG) THEN "caller" ELSE "fresh"

\* graphs the caller may have built before handing one to the executor
InitialGraphs ==
  { EmptyGraph,
    add_edge(EmptyGraph, "A", "B", "r1"),
    add_edge(add_edge(EmptyGraph, "A", "B", "r1"), "B", "C", "r2") }

NoQuery == [status |-> "none", node |-> None, depth |-> 0, result |-> <<>>]

NoLoad == [done |-> FALSE, triples |-> <<>>, before |-> EmptyGraph]

InitGraph ==
  /\ graphArg \in {None, "caller"}
  /\ \E g \in InitialGraphs :
       /\ graphArg = None => g = EmptyGraph
       /\ graphs = [o \in {"caller", "fresh"} |-> IF o = "caller" THEN g ELSE EmptyGraph]
       /\ executorGraph = KGExecutor_init(graphArg, g)
  /\ graphOps = 0
  /\ lastLoad = NoLoad
  /\ qres = NoQuery

TripleLists == UNION {[1..n -> Triples] : n \in 0..MaxTriples}

\* executor.load_triples(triples)
LoadTriples(triples) ==
  /\ graphOps < MaxGraphOps
  /\ graphs' = [graphs EXCEPT ![executorGraph] = load_triples(@, triples)]
  /\ lastLoad' = [done |-> TRUE, triples |-> triples, before |-> graphs[executorGraph]]
  /\ graphOps' = graphOps + 1
  /\ qres' = NoQuery
  /\ UNCHANGED <<graphArg, executorGraph>>
  /\ UNCHANGED notGraph

\* the caller adds an edge to the graph object it passed to the constructor
CallerAddEdge(t) ==
  /\ graphArg = "caller"
  /\ graphOps < MaxGraphOps
  /\ graphs' = [graphs EXCEPT !["caller"] = add_edge(@, t[1], t[3], t[2])]
  /\ graphOps' = graphOps + 1
  /\ lastLoad' = NoLoad
  /\ qres' = NoQuery
  /\ UNCHANGED <<graphArg, executorGraph>>
  /\ UNCHANGED notGraph

\* executor.query_neighbors(node, depth)
QueryNeighbors(node, depth) ==
  /\ LET r == query_neighbors(graphs[executorGraph], node, depth)
     IN  IF r.err
         THEN qres' = [status |-> "error", node |-> node, depth |-> depth, result |-> <<>>]
         ELSE \E l \in ListOf(r.set) :
                qres' = [status |-> "ok", node |-> node, depth |-> depth, result |-> l]
  /\ lastLoad' = NoLoad
  /\ UNCHANGED <<graphs, graphArg, executorGraph, graphOps>>
  /\ UNCHANGED notGraph

\* ================================================================== memory
Keys == {"k1", "step_0", "step_1"}
Values == {"v1", "v2"}

\* KnowledgeMemory(): store = {}
EmptyStore == <<>>

\* KnowledgeMemory.read: self.store.get(key)
read(st, key) == IF key \in DOMAIN st THEN st[key] ELSE None

\* write that keeps the value of a key that exists (setdefault)
write_keep(st, key, value) ==
  [k \in DOMAIN st \cup {key} |-> IF k \in DOMAIN st THEN st[k] ELSE value]

\* KnowledgeMemory.write: self.store[key] = value
write(st, key, value) ==
  [k \in DOMAIN st \cup {key} |-> IF k = key THEN value ELSE st[k]]

NoRead == [status |-> "none", key |-> None, value |-> None]

InitMemory ==
  /\ store = EmptyStore
  /\ writeLog = <<>>
  /\ rres = NoRead

\* memory.write(key, value)
MemoryWrite(key, value) ==
  /\ Len(writeLog) < MaxWrites
  /\ store' = write(store, key, value)
  /\ writeLog' = Append(writeLog, <<key, value>>)
  /\ rres' = NoRead
  /\ UNCHANGED notMemory

\* memory.read(key)
MemoryRead(key) ==
  /\ rres' = [status |-> "ok", key |-> key, value |-> read(store, key)]
  /\ UNCHANGED <<store, writeLog>>
  /\ UNCHANGED notMemory

\* ================================================================== toolbox
ToolNames == {"x", "y"}
\* the callables a caller registers
Fns == {"f1", "f2"}
\* the positional arguments of a call
ArgLists == {<<>>, <<"a1">>, <<"a1", "a2">>}
\* what a callable does when invoked: return a value or raise
Raise == "raise"

\* KGToolbox.__init__: self.tools = {}
EmptyTools == <<>>

\* register that keeps the operation of a name that exists
register_keep(tl, name, fn) ==
  [n \in DOMAIN tl \cup {name} |-> IF n \in DOMAIN tl THEN tl[n] ELSE fn]

\* KGToolbox.register: self.tools[name] = fn
register(tl, name, fn) ==
  [n \in DOMAIN tl \cup {name} |-> IF n = name THEN fn ELSE tl[n]]

\* KGToolbox.call: the lookup; None stands for the KeyError branch
lookup(tl, name) == IF name \notin DOMAIN tl THEN None ELSE tl[name]

\* KGToolbox.call: return self.tools[name](*args, **kwargs); `behaviour` is
\* what the callable does with the arguments
call(tl, name, args, behaviour) ==
  LET fn == lookup(tl, name) IN
  IF fn = None
  THEN [status |-> "KeyError", name |-> name, fn |-> None, fnArgs |-> <<>>,
        fnRet |-> None, ret |-> None]
  ELSE IF behaviour = Raise
  THEN [status |-> "raised", name |-> name, fn |-> fn, fnArgs |-> args,
        fnRet |-> None, ret |-> None]
  ELSE [status |-> "ok", name |-> name, fn |-> fn, fnArgs |-> args,
        fnRet |-> behaviour, ret |-> behaviour]

NoCall == [status |-> "none", name |-> None, fn |-> None, fnArgs |-> <<>>,
           fnRet |-> None, ret |-> None]

InitToolbox ==
  /\ tools = EmptyTools
  /\ regLog = <<>>
  /\ callArgs = <<>>
  /\ cres = NoCall

\* toolbox.register(name, fn)
Register(name, fn) ==
  /\ Len(regLog) < MaxRegs
  /\ tools' = register(tools, name, fn)
  /\ regLog' = Append(regLog, <<name, fn>>)
  /\ callArgs' = <<>>
  /\ cres' = NoCall
  /\ UNCHANGED notToolbox

\* toolbox.call(name, *args)
Call(name, args) ==
  /\ \E behaviour \in Values \cup {Raise} :
       cres' = call(tools, name, args, behaviour)
  /\ callArgs' = args
  /\ UNCHANGED <<tools, regLog>>
  /\ UNCHANGED notToolbox

\* ================================================================== agent
Questions == {"q"}
\* what llm.generate may return
LlmOutputs == {"[]", "text"}

\* the memory argument of KGAgent(): absent (None) or a KnowledgeMemory the
\* caller has filled
NoMemoryArg == [given |-> FALSE, store |-> EmptyStore]
MemoryArgs ==
  { NoMemoryArg,
    [given |-> TRUE, store |-> EmptyStore],
    [given |-> TRUE, store |-> write(write(EmptyStore, "k1", "old"), "step_0", "old")] }

\* bool(memory) of a KnowledgeMemory: the dataclass defines neither __bool__
\* nor __len__, so every instance is true
MemoryTruthy(st) == TRUE

\* KGAgent.__init__: self.memory = memory or KnowledgeMemory()
KGAgent_init(memory) ==
  IF memory.given /\ MemoryTruthy(memory.store) THEN memory.store ELSE EmptyStore

\* KGAgent.plan: raw output of llm.generate when the llm has it, "[]" otherwise;
\* steps is always empty
plan_of(hasGenerate, llmOut) ==
  [raw |-> IF hasGenerate THEN llmOut ELSE "[]", steps |-> <<>>]

\* KGAgent.select_tool: the shipped body returns None whatever the plan; a
\* subclass or stub overriding it returns the name it chooses
select_tool(which, pl, choice) ==
  IF which = "shipped" THEN None ELSE choice

\* KGAgent.update_memory: self.memory.write(key, value)
update_memory(st, key, value) == write(st, key, value)

\* f"step_{i}"
StepKey(n) == "step_" \o ToString(n)

NoPlan == [raw |-> None, steps |-> <<>>]

AgentIdle ==
  /\ pc = "idle"
  /\ question = None
  /\ maxIter = 0
  /\ plan = NoPlan
  /\ result = None
  /\ i = 0
  /\ toolName = None
  /\ toolOut = None
  /\ returned = None
  /\ error = None
  /\ runs = 0
  /\ selLog = <<>>
  /\ attempts = <<>>
  /\ outs = <<>>
  /\ runWrites = <<>>

\* agent = KGAgent(llm, toolbox, executor, memory)
InitAgent ==
  /\ llmHasGenerate \in BOOLEAN
  /\ selector \in {"shipped", "stub"}
  /\ memArg \in MemoryArgs
  /\ store = KGAgent_init(memArg)
  /\ startStore = store
  /\ tools \in {EmptyTools, register(EmptyTools, "x", "f1")}
  /\ AgentIdle

\* run that makes a new memory for every call
StartRun_fresh(q, n) ==
  /\ pc \in {"idle", "done", "failed"}
  /\ runs < MaxRuns
  /\ runs' = runs + 1
  /\ question' = q
  /\ maxIter' = n
  /\ \E llmOut \in LlmOutputs : plan' = plan_of(llmHasGenerate, llmOut)
  /\ result' = None
  /\ i' = 0
  /\ pc' = "loop"
  /\ error' = None
  /\ store' = EmptyStore
  /\ startStore' = EmptyStore
  /\ selLog' = <<>>
  /\ attempts' = <<>>
  /\ outs' = <<>>
  /\ runWrites' = <<>>
  /\ UNCHANGED <<llmHasGenerate, selector, memArg, toolName, toolOut, returned>>
  /\ UNCHANGED notAgent

\* agent.run(question, max_iterations): plan = self.plan(question); result = None
StartRun(q, n) ==
  /\ pc \in {"idle", "done", "failed"}
  /\ runs < MaxRuns
  /\ runs' = runs + 1
  /\ question' = q
  /\ maxIter' = n
  /\ \E llmOut \in LlmOutputs : plan' = plan_of(llmHasGenerate, llmOut)
  /\ result' = None
  /\ i' = 0
  /\ pc' = "loop"
  /\ error' = None
  /\ startStore' = store
  /\ selLog' = <<>>
  /\ attempts' = <<>>
  /\ outs' = <<>>
  /\ runWrites' = <<>>
  /\ UNCHANGED <<llmHasGenerate, selector, memArg, toolName, toolOut, returned, store>>
  /\ UNCHANGED notAgent

\* the loop running one iteration too many: range(max_iterations + 1)
Select_offbyone ==
  /\ pc = "loop"
  /\ i <= maxIter
  /\ \E choice \in ToolNames \cup {None} :
       LET t == select_tool(selector, plan, choice) IN
       /\ selLog' = Append(selLog, t)
       /\ toolName' = t
       /\ IF t = None
          THEN pc' = "done" /\ returned' = result
          ELSE pc' = "execute" /\ UNCHANGED returned
  /\ UNCHANGED <<llmHasGenerate, selector, memArg, question, maxIter, plan, result,
                 i, toolOut, error, runs, startStore, attempts, outs, runWrites, store>>
  /\ UNCHANGED notAgent

\* the loop skipping the iteration on None instead of leaving: continue for break
Select_continue ==
  /\ pc = "loop"
  /\ i < maxIter
  /\ \E choice \in ToolNames \cup {None} :
       LET t == select_tool(selector, plan, choice) IN
       /\ selLog' = Append(selLog, t)
       /\ toolName' = t
       /\ IF t = None
          THEN pc' = "loop" /\ i' = i + 1
          ELSE pc' = "execute" /\ i' = i
  /\ UNCHANGED <<llmHasGenerate, selector, memArg, question, maxIter, plan, result,
                 returned, toolOut, error, runs, startStore, attempts, outs, runWrites, store>>
  /\ UNCHANGED notAgent

\* for i in range(max_iterations): tool_name = self.select_tool(plan);
\* if tool_name is None: break
Select ==
  /\ pc = "loop"
  /\ i < maxIter
  /\ \E choice \in ToolNames \cup {None} :
       LET t == select_tool(selector, plan, choice) IN
       /\ selLog' = Append(selLog, t)
       /\ toolName' = t
       /\ IF t = None
          THEN pc' = "done" /\ returned' = result
          ELSE pc' = "execute" /\ UNCHANGED returned
  /\ UNCHANGED <<llmHasGenerate, selector, memArg, question, maxIter, plan, result,
                 i, toolOut, error, runs, startStore, attempts, outs, runWrites, store>>
  /\ UNCHANGED notAgent

\* range(max_iterations) is exhausted: return result
Exhausted ==
  /\ pc = "loop"
  /\ i >= maxIter
  /\ pc' = "done"
  /\ returned' = result
  /\ UNCHANGED <<llmHasGenerate, selector, memArg, question, maxIter, plan, result,
                 i, toolName, toolOut, error, runs, startStore, runLog, store>>
  /\ UNCHANGED notAgent

\* the loop catching the exception of the tool and going on with the next
\* iteration
Execute_swallow ==
  /\ pc = "execute"
  /\ attempts' = Append(attempts, <<toolName, <<question>>>>)
  /\ \E behaviour \in Values \cup {Raise} :
       LET c == call(tools, toolName, <<question>>, behaviour) IN
       IF c.status = "ok"
       THEN /\ toolOut' = c.ret
            /\ outs' = Append(outs, c.fnRet)
            /\ pc' = "update"
            /\ UNCHANGED <<error, i>>
       ELSE /\ pc' = "loop"
            /\ i' = i + 1
            /\ error' = c.status
            /\ UNCHANGED <<toolOut, outs>>
  /\ UNCHANGED <<llmHasGenerate, selector, memArg, question, maxIter, plan, result,
                 toolName, returned, runs, startStore, selLog, runWrites, store>>
  /\ UNCHANGED notAgent

\* tool_out = self.execute_tool(tool_name, question), i.e. toolbox.call; an
\* exception leaves run
Execute ==
  /\ pc = "execute"
  /\ attempts' = Append(attempts, <<toolName, <<question>>>>)
  /\ \E behaviour \in Values \cup {Raise} :
       LET c == call(tools, toolName, <<question>>, behaviour) IN
       IF c.status = "ok"
       THEN /\ toolOut' = c.ret
            /\ outs' = Append(outs, c.fnRet)
            /\ pc' = "update"
            /\ UNCHANGED error
       ELSE /\ pc' = "failed"
            /\ error' = c.status
            /\ UNCHANGED <<toolOut, outs>>
  /\ UNCHANGED <<llmHasGenerate, selector, memArg, question, maxIter, plan, result,
                 i, toolName, returned, runs, startStore, selLog, runWrites, store>>
  /\ UNCHANGED notAgent

\* self.update_memory(f"step_{i}", tool_out); result = tool_out; next i
UpdateMemory ==
  /\ pc = "update"
  /\ store' = update_memory(store, StepKey(i), toolOut)
  /\ runWrites' = Append(runWrites, <<StepKey(i), toolOut>>)
  /\ result' = toolOut
  /\ i' = i + 1
  /\ pc' = "loop"
  /\ UNCHANGED <<llmHasGenerate, selector, memArg, question, maxIter, plan,
                 toolName, toolOut, returned, error, runs, startStore, selLog,
                 attempts, outs>>
  /\ UNCHANGED notAgent

\* ================================================================== specifications
\* the state of a component no action of the specification touches
GraphUnused ==
  /\ graphs = [o \in {"caller", "fresh"} |-> EmptyGraph]
  /\ graphArg = None
  /\ executorGraph = "fresh"
  /\ graphOps = 0
  /\ lastLoad = NoLoad
  /\ qres = NoQuery

AgentUnused ==
  /\ llmHasGenerate = FALSE
  /\ selector = "shipped"
  /\ memArg = NoMemoryArg
  /\ startStore = EmptyStore
  /\ AgentIdle

InitGraphSpec == InitGraph /\ InitMemory /\ InitToolbox /\ AgentUnused
InitMemorySpec == GraphUnused /\ InitMemory /\ InitToolbox /\ AgentUnused
InitToolboxSpec == GraphUnused /\ InitMemory /\ InitToolbox /\ AgentUnused
InitAgentSpec ==
  /\ GraphUnused
  /\ writeLog = <<>> /\ rres = NoRead
  /\ regLog = <<>> /\ callArgs = <<>> /\ cres = NoCall
  /\ InitAgent

NextGraph ==
  \/ \E triples \in TripleLists : LoadTriples(triples)
  \/ \E t \in Triples : CallerAddEdge(t)
  \/ \E node \in Nodes, depth \in 0..MaxDepth : QueryNeighbors(node, depth)

NextMemory ==
  \/ \E key \in Keys, value \in Values \cup {None} : MemoryWrite(key, value)
  \/ \E key \in Keys : MemoryRead(key)

NextToolbox ==
  \/ \E name \in ToolNames, fn \in Fns : Register(name, fn)
  \/ \E name \in ToolNames, args \in ArgLists : Call(name, args)

NextAgent ==
  \/ \E q \in Questions, n \in 0..MaxIter : StartRun(q, n)
  \/ Select
  \/ Exhausted
  \/ Execute
  \/ UpdateMemory

SpecGraph == InitGraphSpec /\ [][NextGraph]_vars
SpecMemory == InitMemorySpec /\ [][NextMemory]_vars
SpecToolbox == InitToolboxSpec /\ [][NextToolbox]_vars
SpecAgent == InitAgentSpec /\ [][NextAgent]_vars

\* ================================================================== properties
\* the graph the executor works on
G == graphs[executorGraph]

\* there is a directed walk of exactly k edges from n to m
RECURSIVE HasWalk(_, _, _, _)
HasWalk(g, n, m, k) ==
  IF k = 0 THEN n = m
  ELSE \E x \in Nodes : <<n, x>> \in Edges(g) /\ HasWalk(g, x, m, k - 1)

WalkEnds(g, n, d) == {m \in Nodes : \E k \in 1..d : HasWalk(g, n, m, k)}

\* C1: a neighbor query of a node that is not in the graph returns an empty
\* result and raises no error, for every depth
C1_MissingNodeQueryIsEmpty ==
  (qres.status # "none" /\ qres.node \notin G.nodes)
    => (qres.status = "ok" /\ qres.result = <<>>)

\* C2: for a node of the graph, query_neighbors(n, d) returns, each once,
\* exactly the endpoints of the directed walks of length 1..d from n
C2_NeighborsAreWalkEnds ==
  (qres.status # "none" /\ qres.node \in G.nodes)
    => /\ qres.status = "ok"
       /\ Range(qres.result) = WalkEnds(G, qres.node, qres.depth)
       /\ \A a, b \in DOMAIN qres.result :
            qres.result[a] = qres.result[b] => a = b
       /\ qres.depth = 0 => qres.result = <<>>

\* the chain A -r1-> B -r2-> C queried from A at depth 2
C2_Witness_ChainDepth2 ==
  /\ qres.status = "ok" /\ qres.node = "A" /\ qres.depth = 2
  /\ Edges(G) = {<<"A", "B">>, <<"B", "C">>}
  /\ Range(qres.result) = {"B", "C"}

\* the last triple of the list with the pair (s, o), as an index, 0 if none
LastIndexOf(ts, e) ==
  LET hits == {j \in DOMAIN ts : <<ts[j][1], ts[j][3]>> = e}
  IN  IF hits = {} THEN 0 ELSE CHOOSE j \in hits : \A h \in hits : h <= j

\* C7: after load_triples the nodes are the old nodes plus the subjects and
\* objects loaded, the edges are the old edges plus one s->o per pair loaded,
\* each edge carries the predicate of the last triple loaded for it, and a
\* list that only re-loads existing pairs leaves every successor set as it was
C7_LoadTriplesEffect ==
  lastLoad.done =>
    LET ts == lastLoad.triples
        b == lastLoad.before
        pairs == {<<ts[j][1], ts[j][3]>> : j \in DOMAIN ts}
    IN  /\ G.nodes = b.nodes \cup {ts[j][1] : j \in DOMAIN ts} \cup {ts[j][3] : j \in DOMAIN ts}
        /\ Edges(G) = Edges(b) \cup pairs
        /\ \A e \in Edges(G) :
             G.pred[e] = IF e \in pairs THEN ts[LastIndexOf(ts, e)][2] ELSE b.pred[e]
        /\ pairs \subseteq Edges(b) =>
             \A n \in Nodes : Successors(G, n) = Successors(b, n)

\* A->B is re-loaded with another predicate
C7_Witness_PredicateOverwritten ==
  /\ lastLoad.done
  /\ <<"A", "B">> \in Edges(lastLoad.before)
  /\ lastLoad.before.pred[<<"A", "B">>] = "r1"
  /\ G.pred[<<"A", "B">>] = "r2"
  /\ Edges(G) = Edges(lastLoad.before)

\* C10: an executor constructed with the caller's graph works on that graph:
\* what the executor loads is in the caller's graph and the reverse
C10_ExecutorUsesCallerGraph ==
  graphArg = "caller" => G = graphs["caller"]

\* the value of the last write to the key in the log, None if there is none
LastValue(log, key) ==
  LET hits == {j \in DOMAIN log : log[j][1] = key}
  IN  IF hits = {} THEN None
      ELSE log[CHOOSE j \in hits : \A h \in hits : h <= j][2]

LoggedKeys(log) == {log[j][1] : j \in DOMAIN log}

\* C8: read(k) returns the value of the most recent write to k, None for a key
\* never written, and the store holds exactly the keys written
C8_ReadReturnsLastWrite ==
  /\ rres.status # "none" =>
       /\ rres.status = "ok"
       /\ rres.value = LastValue(writeLog, rres.key)
  /\ DOMAIN store = LoggedKeys(writeLog)
  /\ \A k \in Keys : read(store, k) = LastValue(writeLog, k)

\* a key written twice with different values, then read
C8_Witness_ReadAfterOverwrite ==
  /\ rres.status = "ok"
  /\ Len(writeLog) >= 2
  /\ writeLog[1][1] = rres.key /\ writeLog[2][1] = rres.key
  /\ writeLog[1][2] # writeLog[2][2]
  /\ rres.value = writeLog[2][2]

\* C5: a call of an unregistered name fails with KeyError and calls nothing;
\* a call of a registered name calls the operation registered last under the
\* name with the given arguments and returns what it returns; the registry is
\* what the register calls made it
C5_CallDispatch ==
  /\ DOMAIN tools = LoggedKeys(regLog)
  /\ \A n \in DOMAIN tools : tools[n] = LastValue(regLog, n)
  /\ cres.status # "none" =>
       IF cres.name \notin LoggedKeys(regLog)
       THEN cres.status = "KeyError" /\ cres.fn = None
       ELSE /\ cres.status \in {"ok", "raised"}
            /\ cres.fn = LastValue(regLog, cres.name)
            /\ cres.fnArgs = callArgs
            /\ cres.status = "ok" => cres.ret = cres.fnRet /\ cres.ret \in Values

\* a name registered twice with different operations, then called
C5_Witness_CallAfterReRegister ==
  /\ cres.status = "ok"
  /\ Len(regLog) >= 2
  /\ regLog[1][1] = cres.name /\ regLog[2][1] = cres.name
  /\ regLog[1][2] # regLog[2][2]
  /\ cres.fn = regLog[2][2]
  /\ callArgs = <<"a1", "a2">>

\* the memory keys of the iterations, in order
IterationKeys == <<"step_0", "step_1", "step_2", "step_3", "step_4", "step_5">>

\* the writes of the first k iterations: step_{j-1} holds the j-th output
ExpectedWrites(k) == [j \in 1..k |-> <<IterationKeys[j], outs[j]>>]

\* a store after a sequence of writes
RECURSIVE ApplyWrites(_, _)
ApplyWrites(st, log) ==
  IF log = <<>> THEN st
  ELSE ApplyWrites([k \in DOMAIN st \cup {Head(log)[1]} |->
                      IF k = Head(log)[1] THEN Head(log)[2] ELSE st[k]],
                   Tail(log))

\* C3: a run whose selector never returns None and whose tool never fails makes
\* exactly max_iterations tool invocations, writes step_0 .. step_{N-1} in
\* order, and returns the output of the last invocation; no run makes more
\* than max_iterations invocations
C3_BudgetIsExactAndHard ==
  /\ Len(attempts) <= maxIter
  /\ (pc = "done" /\ maxIter >= 1 /\ None \notin Range(selLog)) =>
       /\ error = None
       /\ Len(attempts) = maxIter
       /\ Len(outs) = maxIter
       /\ runWrites = ExpectedWrites(maxIter)
       /\ returned = outs[maxIter]

C3_Witness_ThreeIterations ==
  /\ pc = "done" /\ maxIter = 3 /\ None \notin Range(selLog)
  /\ Len(outs) = 3 /\ Len(runWrites) = 3
  /\ outs[2] # outs[3]

\* C4: when the selector returns None at iteration k the run is done at once
\* with k invocations and k writes, returning the k-th output, or None and an
\* untouched memory when k = 0; the selector is never asked after a None
C4_NoneEndsTheRun ==
  /\ \A j \in 1..(Len(selLog) - 1) : selLog[j] # None
  /\ (selLog # <<>> /\ selLog[Len(selLog)] = None) =>
       LET k == Len(selLog) - 1
       IN  /\ pc = "done"
           /\ k < maxIter
           /\ Len(attempts) = k
           /\ Len(outs) = k
           /\ runWrites = ExpectedWrites(k)
           /\ returned = IF k = 0 THEN None ELSE outs[k]
           /\ k = 0 => store = startStore

C4_Witness_NoneAtSecondIteration ==
  /\ pc = "done"
  /\ Len(selLog) = 3 /\ selLog[3] = None
  /\ Len(outs) = 2 /\ outs[1] # outs[2]
  /\ returned = outs[2]

\* C6: a run whose tool invocation of iteration k fails ends there with the
\* error: k writes were made (those of iterations 0..k-1), the failing call was
\* the last call to the selector and to the toolbox, and memory holds what it
\* held before the run overwritten by those k writes
C6_FailureAbortsTheRun ==
  error # None =>
    LET k == Len(outs)
    IN  /\ pc = "failed"
        /\ error \in {"KeyError", "raised"}
        /\ i = k
        /\ Len(selLog) = k + 1
        /\ Len(attempts) = k + 1
        /\ attempts[k + 1][1] = selLog[k + 1]
        /\ error = "KeyError" <=> selLog[k + 1] \notin DOMAIN tools
        /\ runWrites = ExpectedWrites(k)
        /\ store = ApplyWrites(startStore, ExpectedWrites(k))
        /\ \A key \in DOMAIN startStore :
             key \notin LoggedKeys(runWrites) => read(store, key) = startStore[key]

C6_Witness_FailureAtThirdIteration ==
  /\ error = "raised"
  /\ Len(outs) = 2
  /\ memArg.given /\ "k1" \in DOMAIN startStore
  /\ read(store, "k1") = "old" /\ read(store, "step_0") = outs[1]

\* C9 as stated: without an injected memory every run starts with an empty
\* memory
C9_EveryRunStartsEmpty ==
  (~memArg.given /\ runs >= 1) => startStore = EmptyStore

\* C9 as amended: the memory is made when the agent is constructed; without an
\* injected memory the first run starts empty, every later run starts with
\* what the earlier runs left, and within a run the memory changes only by the
\* writes of update_memory
C9_MemoryInvariant ==
  /\ (~memArg.given /\ runs <= 1) => startStore = EmptyStore
  /\ (memArg.given /\ runs <= 1) => startStore = memArg.store
  /\ store = ApplyWrites(startStore, runWrites)

C9_MemoryPerAgent ==
  /\ []C9_MemoryInvariant
  /\ [][ /\ runs' = runs + 1 => (startStore' = store /\ store' = store)
         /\ store' # store => (pc = "update" /\ runs' = runs) ]_vars

\* a second run on an agent without injected memory that starts with the
\* entries of the first
C9_Witness_SecondRunSeesFirst ==
  /\ ~memArg.given /\ runs = 2 /\ pc = "done"
  /\ "step_1" \in DOMAIN startStore
  /\ runWrites # <<>>
  /\ "step_1" \notin LoggedKeys(runWrites)
  /\ read(store, "step_1") = startStore["step_1"]

====
